---- MODULE Spec2Model ----
(***************************************************************************)
(* SEA Math Tutor (src/app.py): the Streamlit session of one student.     *)
(* Every user interaction reruns the script; an action below is one such  *)
(* rerun, or the return of the reply generator inside one.                 *)
(*                                                                         *)
(* Text is a sequence of one-character strings; a character outside ASCII  *)
(* is written by its code point ("<U+2705>" is the check-mark glyph).      *)
(***************************************************************************)
EXTENDS Integers, Sequences, FiniteSets

VARIABLES
    screen,               \* st.session_state.screen
    student_name,         \* st.session_state.student_name
    student_id,           \* st.session_state.student_id
    first_name,           \* st.session_state.first_name
    current_topic,        \* st.session_state.current_topic
    questions_answered,   \* st.session_state.questions_answered
    correct_answers,      \* st.session_state.correct_answers
    session_start,        \* st.session_state.session_start: <<>> is None, <<t>> a time
    conversation_history, \* st.session_state.conversation_history: the roles of its messages
    daily_usage,          \* st.session_state.daily_usage: [date, count]
    pending_logs,         \* st.session_state.pending_logs
    question_start_time,  \* st.session_state.question_start_time: <<>> is an absent key
    summed,               \* history: the minutes the updates of this session have added to the student's time cell
    question_issued,      \* history: the moment of the reply that posed a new question since the last feedback turn, <<>> for none
    current_streak,       \* the session's streak of consecutive correct turns
    best_streak,          \* the session's best streak
    events,               \* the events the last rerun emitted (badge award, streak ended)
    activity_log,         \* the rows of the Activity_Log worksheet
    now,                  \* the clock, datetime.now(TT_TZ)
    view,                 \* what the last rerun left on the page
    pc,                   \* "idle", "thinking" while chat.send_message is out, or
                          \* "updating" inside update_student_summary
    response,             \* the reply the last turn received: an index of Replies, 0 for none
    outcome,              \* what the last rerun did with the turn
    held,                 \* the locals of update_student_summary between lines 454 and 455
    students,             \* the rows of the Students worksheet
    budget,               \* the prompts the reply generator may still be sent
    store,                \* how the spreadsheet store answers: "up", "down" or "flaky"
    peer,                 \* the session state of the other browser session
    me                    \* the browser session the variables above belong to

vars ==
    << screen, student_name, student_id, first_name, current_topic,
       questions_answered, correct_answers, session_start, conversation_history,
       daily_usage, pending_logs, question_start_time, current_streak, best_streak,
       events, activity_log, now, view, pc, response, outcome, held, students,
       budget, store, peer, me, question_issued,
       summed >>

-----------------------------------------------------------------------------
(* Bounds of the model *)

\* st.secrets "daily_limit_per_student" (default 50): the value configured here.
DAILY_LIMIT == 1

\* st.secrets "global_daily_limit" (default 1000): the value configured here.
GLOBAL_DAILY_LIMIT == 2

\* The prompts a behaviour sends to the reply generator.
MaxTurns == 2

\* The prompts a behaviour of SpecPractice sends to the reply generator.
PracticeTurns == 2

\* The longest streak a session of InitPractice has behind it.
MaxBest == 25

\* The clock runs to MaxNow.
MaxNow == 2

\* Clock ticks in one calendar day. A session of Init starts on the last tick
\* of a day.
DayLen == 2

\* The rows the Students worksheet takes: an append_row beyond them fails.
MaxRows == 2

\* The time cell of a Students row takes the minutes of MaxSummed clock ticks.
MaxSummed == 2

\* The batch size of log_student_activity.
FLUSH_AT == 5

None == "None"

-----------------------------------------------------------------------------
(* Text *)

UpperCase ==
    << "A", "B", "C", "D", "E", "F", "G", "H", "I", "J", "K", "L", "M",
       "N", "O", "P", "Q", "R", "S", "T", "U", "V", "W", "X", "Y", "Z" >>

LowerCase ==
    << "a", "b", "c", "d", "e", "f", "g", "h", "i", "j", "k", "l", "m",
       "n", "o", "p", "q", "r", "s", "t", "u", "v", "w", "x", "y", "z" >>

\* str.lower() on one character.
LowerChar(c) ==
    IF \E i \in 1..Len(UpperCase) : UpperCase[i] = c
    THEN LowerCase[CHOOSE i \in 1..Len(UpperCase) : UpperCase[i] = c]
    ELSE c

\* str.lower()
Lower(s) == [i \in 1..Len(s) |-> LowerChar(s[i])]

\* The characters str.strip() removes.
Whitespace == {" ", "\t", "\n", "\r"}

\* The characters str.splitlines() breaks a line at.
LineBreaks == {"\n", "\r"}

\* str.strip()
Strip(s) ==
    LET keep == {i \in 1..Len(s) : s[i] \notin Whitespace}
    IN  IF keep = {} THEN <<>>
        ELSE LET lo == CHOOSE i \in keep : \A j \in keep : i <= j
                 hi == CHOOSE i \in keep : \A j \in keep : j <= i
             IN  SubSeq(s, lo, hi)

\* marker in line
Contains(line, marker) ==
    \E i \in 1..(Len(line) - Len(marker) + 1) :
        SubSeq(line, i, i + Len(marker) - 1) = marker

\* str.splitlines(): the lines of a text, an empty text having none. "\r\n" is
\* one line break.
RECURSIVE SplitLines(_)
SplitLines(s) ==
    IF s = <<>> THEN <<>>
    ELSE LET brk == {i \in 1..Len(s) : s[i] \in LineBreaks}
         IN  IF brk = {} THEN <<s>>
             ELSE LET b == CHOOSE i \in brk : \A j \in brk : i <= j
                      crlf == b < Len(s) /\ s[b] = "\r" /\ s[b + 1] = "\n"
                      rest == SubSeq(s, IF crlf THEN b + 2 ELSE b + 1, Len(s))
                  IN  <<SubSeq(s, 1, b - 1)>> \o SplitLines(rest)

correct_markers ==
    << <<"<U+2705>">>,
       <<"<U+2713>">>,
       <<"c", "o", "r", "r", "e", "c", "t", "!">>,
       <<"y", "e", "s", "!">>,
       <<"e", "x", "c", "e", "l", "l", "e", "n", "t", "!">>,
       <<"g", "r", "e", "a", "t", " ", "j", "o", "b", "!">>,
       <<"w", "e", "l", "l", " ", "d", "o", "n", "e", "!">>,
       <<"p", "e", "r", "f", "e", "c", "t", "!">>,
       <<"r", "i", "g", "h", "t", "!">>,
       <<"e", "x", "a", "c", "t", "l", "y", "!">>,
       <<"s", "p", "o", "t", " ", "o", "n", "!">>,
       <<"y", "o", "u", " ", "g", "o", "t", " ", "i", "t">> >>

incorrect_markers ==
    << <<"<U+274C>">>,
       <<"<U+2717>">>,
       <<"n", "o", "t", " ", "q", "u", "i", "t", "e">>,
       <<"i", "n", "c", "o", "r", "r", "e", "c", "t">>,
       <<"t", "h", "a", "t", "'", "s", " ", "n", "o", "t", " ", "r", "i", "g", "h", "t">>,
       <<"t", "r", "y", " ", "a", "g", "a", "i", "n">>,
       <<"n", "o", "t", " ", "c", "o", "r", "r", "e", "c", "t">>,
       <<"w", "r", "o", "n", "g">>,
       <<"a", "l", "m", "o", "s", "t">> >>

\* The replies the reply generator returns here.
Replies ==
    << <<"<U+2705>", " ", "C", "o", "r", "r", "e", "c", "t", "!", "\n", "G", "r", "e", "a", "t", " ", "j", "o", "b", ".">>,
       <<"<U+274C>", " ", "N", "o", "t", " ", "q", "u", "i", "t", "e", ",", " ", "t", "r", "y", " ", "a", "g", "a", "i", "n", ".">>,
       <<"W", "h", "a", "t", " ", "i", "s", " ", "4", "5", " ", "<U+00F7>", " ", "9", "?">>,
       <<"T", "h", "a", "t", "'", "s", " ", "n", "o", "t", " ", "c", "o", "r", "r", "e", "c", "t", "!">>,
       <<"N", "e", "x", "t", " ", "o", "n", "e", ":", "\n", "<U+2705>", " ", "C", "o", "r", "r", "e", "c", "t", "!">>,
       <<>>,
       <<" ", " ", "Y", "E", "S", "!", "\r", "\n", "w", "r", "o", "n", "g">>,
       <<"\n", "<U+274C>", " ", "w", "r", "o", "n", "g">> >>

-----------------------------------------------------------------------------
(* The answer classifier of show_practice_screen *)

\* response_text.splitlines()[0] raises IndexError on a text with no lines.
Raises(response_text) == SplitLines(response_text) = <<>>

\* Line 801 without the [0] of splitlines(): the whole reply is scanned.
first_line_WholeReply(response_text) == Lower(Strip(response_text))

\* first_line = response_text.splitlines()[0].strip().lower()
first_line(response_text) == Lower(Strip(SplitLines(response_text)[1]))

\* has_correct = any(marker in first_line for marker in correct_markers)
has_correct(response_text) ==
    \E k \in 1..Len(correct_markers) :
        Contains(first_line(response_text), correct_markers[k])

\* has_incorrect = any(marker in first_line for marker in incorrect_markers)
has_incorrect(response_text) ==
    \E k \in 1..Len(incorrect_markers) :
        Contains(first_line(response_text), incorrect_markers[k])

\* is_feedback = has_correct or has_incorrect
is_feedback(response_text) ==
    has_correct(response_text) \/ has_incorrect(response_text)

\* is_correct = has_correct
is_correct(response_text) == has_correct(response_text)

\* What lines 801-815 make of each reply of Replies.
Classified ==
    [ r \in 1..Len(Replies) |->
        IF Raises(Replies[r]) THEN "raised"
        ELSE IF ~is_feedback(Replies[r]) THEN "question"
        ELSE IF is_correct(Replies[r]) THEN "correct" ELSE "incorrect" ]

-----------------------------------------------------------------------------
(* Streaks and badges: the progress tracker's transition. src/app.py holds *)
(* no streak or badge code (only the badge_progress key); the transition   *)
(* follows section 4.1 of the specification.                               *)

BadgeThresholds == {5, 10, 15, 20, 25}

BadgeTier(n) ==
    CASE n = 5  -> "Bronze"
      [] n = 10 -> "Silver"
      [] n = 15 -> "Gold"
      [] n = 20 -> "Platinum"
      [] n = 25 -> "Diamond"

\* A wrong answer costs one step of the streak instead of all of it.
StreakAfterDecrement(streak, correct) ==
    IF correct THEN streak + 1 ELSE IF streak > 0 THEN streak - 1 ELSE 0

\* Every classified turn extends the streak.
StreakAfterAnyFeedback(streak, correct) == streak + 1

\* currentStreak after a classified turn.
StreakAfter(streak, correct) == IF correct THEN streak + 1 ELSE 0

\* bestStreak follows currentStreak without the max.
BestAfterNoMax(best, streak, correct) == IF correct THEN streak + 1 ELSE best

\* bestStreak after a classified turn: max(bestStreak, currentStreak).
BestAfter(best, streak, correct) ==
    IF correct /\ streak + 1 > best THEN streak + 1 ELSE best

\* A badge is awarded once per session: only for a streak that is a new best.
EventsOfOncePerSession(streak, best, correct, name) ==
    IF correct
    THEN IF streak + 1 \in BadgeThresholds /\ streak + 1 > best
         THEN {[type |-> "badge", tier |-> BadgeTier(streak + 1), student |-> name]}
         ELSE {}
    ELSE IF streak >= 5 THEN {[type |-> "streak_ended"]} ELSE {}

\* The streak is zeroed before the streak-ended check reads it.
EventsOfCheckedAfterReset(streak, best, correct, name) ==
    IF correct
    THEN IF streak + 1 \in BadgeThresholds
         THEN {[type |-> "badge", tier |-> BadgeTier(streak + 1), student |-> name]}
         ELSE {}
    ELSE IF StreakAfter(streak, correct) >= 5 THEN {[type |-> "streak_ended"]} ELSE {}

\* The events a classified turn emits.
EventsOf(streak, best, correct, name) ==
    IF correct
    THEN IF streak + 1 \in BadgeThresholds
         THEN {[type |-> "badge", tier |-> BadgeTier(streak + 1), student |-> name]}
         ELSE {}
    ELSE IF streak >= 5 THEN {[type |-> "streak_ended"]} ELSE {}

-----------------------------------------------------------------------------
(* Time *)

\* get_tt_date().isoformat(): the calendar date of the clock.
Today == now \div DayLen

\* The date a row's timestamp starts with.
DateOf(timestamp) == timestamp \div DayLen

-----------------------------------------------------------------------------
(* Inputs *)

\* The topics of the dashboard's six buttons.
AllTopics == {"Number", "Geometry", "Measurement", "Statistics", "Mixed", "Full Test"}

\* The buttons pressed here.
Topics == {"Number", "Mixed"}

FirstNames == {"", "Ana"}
LastNames == {"", "Lee"}
ClassCodes == {"", "math2025", "nope"}

\* class_code.upper() in the upper-cased valid codes, "MATH2025,SEA2025".
ValidCode(class_code) == class_code \in {"math2025", "MATH2025", "sea2025", "SEA2025"}

\* get_or_create_student_id(full_name): one id for one name.
StudentIdOf(full_name) == "STU1"

\* full_name = f"{first_name} {last_name}"
FullName(first, last) == first \o " " \o last

-----------------------------------------------------------------------------
(* The store and the limit checks *)

\* get_sheets_client and the worksheet calls behind it: a store that is up
\* answers every call, one that is down fails every call (the client is None
\* or the call raises), a flaky one does either from call to call, failing
\* update_student_summary at its first call if at all, and a patchy one
\* answers every call but one of update_student_summary, at any of its lines.
StoreModes == {"up", "down", "flaky"}

\* What a call to the store can come to: TRUE when it is answered.
StoreAnswers ==
    CASE store \in {"up", "patchy"} -> {TRUE}
      [] store = "down"             -> {FALSE}
      [] OTHER                      -> BOOLEAN

\* check_global_limit stopping the rerun also when the store cannot be read.
GlobalBlockedFailClosed(log, readOk) ==
    Cardinality({i \in 1..Len(log) : DateOf(log[i].timestamp) = Today})
        >= GLOBAL_DAILY_LIMIT

\* check_global_limit: the rows stamped with today's date are at the ceiling;
\* a store that cannot be read passes.
GlobalBlocked(log, readOk) ==
    /\ readOk
    /\ Cardinality({i \in 1..Len(log) : DateOf(log[i].timestamp) = Today})
          >= GLOBAL_DAILY_LIMIT

\* Lines 513-514 renewing the date and keeping the count.
UsageCheckedKeepsCount(usage) == [usage EXCEPT !.date = Today]

\* check_daily_limit, lines 513-514: a stale date resets the usage.
UsageChecked(usage) ==
    IF usage.date # Today THEN [date |-> Today, count |-> 0] ELSE usage

\* Line 515 with > for >=.
DailyBlockedAbove(usage) == usage.count > DAILY_LIMIT

\* check_daily_limit, line 515.
DailyBlocked(usage) == usage.count >= DAILY_LIMIT

\* The page a rerun of a logged-in screen ends on: a limit wall (st.stop) or
\* the screen itself.
Landing(log, usage, readOk, page) ==
    IF GlobalBlocked(log, readOk) THEN "global_wall"
    ELSE IF DailyBlocked(UsageChecked(usage)) THEN "daily_wall"
    ELSE page

\* flush_pending_logs with the clear() outside the try: the queue is emptied
\* also when the append failed.
FlushedClearsAnyway(pending, log, storeOk) ==
    IF pending = <<>> THEN <<pending, log>>
    ELSE << <<>>, IF storeOk THEN log \o pending ELSE log >>

\* flush_pending_logs: <<pending_logs, Activity_Log>> afterwards. An
\* unavailable store or a failed append leaves both as they are.
Flushed(pending, log, storeOk) ==
    IF pending # <<>> /\ storeOk THEN << <<>>, log \o pending >> ELSE <<pending, log>>

\* Line 422 with the flag the wrong way round.
RowFlagSwapped(sid, name, strand, correct, time_seconds) ==
    [ timestamp     |-> now,
      student_id    |-> sid,
      student_name  |-> name,
      question_type |-> "Question",
      strand        |-> strand,
      correct       |-> IF correct THEN "No" ELSE "Yes",
      time_seconds  |-> time_seconds ]

\* The row log_student_activity builds.
Row(sid, name, strand, correct, time_seconds) ==
    [ timestamp     |-> now,
      student_id    |-> sid,
      student_name  |-> name,
      question_type |-> "Question",
      strand        |-> strand,
      correct       |-> IF correct THEN "Yes" ELSE "No",
      time_seconds  |-> time_seconds ]

\* Line 427 with > for >=: the queue is flushed on its sixth row.
LoggedFlushAbove(pending, log, row, storeOk) ==
    LET queued == Append(pending, row)
    IN  IF Len(queued) > FLUSH_AT THEN Flushed(queued, log, storeOk)
        ELSE <<queued, log>>

\* log_student_activity: <<pending_logs, Activity_Log>> afterwards: the row is
\* queued and the queue flushed once it holds FLUSH_AT rows.
Logged(pending, log, row, storeOk) ==
    LET queued == Append(pending, row)
    IN  IF Len(queued) >= FLUSH_AT THEN Flushed(queued, log, storeOk)
        ELSE <<queued, log>>

-----------------------------------------------------------------------------
(* The Students worksheet and update_student_summary *)

\* The seconds of one clock tick.
SecondsPerTick == 86400 \div DayLen

\* round(n / d): Python rounds a half to the even neighbour.
RoundDiv(n, d) ==
    LET q == n \div d
        r == n % d
    IN  IF 2 * r < d THEN q
        ELSE IF 2 * r > d THEN q + 1
        ELSE IF q % 2 = 0 THEN q ELSE q + 1

\* round((datetime.now(TT_TZ) - session_start).seconds / 60): timedelta.seconds
\* is the time within the day, the whole days of the difference left out.
time_minutes(start) ==
    RoundDiv(((now - start[1]) * SecondsPerTick) % 86400, 60)

\* The calls of update_student_summary to the store after the flush, in their
\* order: worksheet("Students"), find, update_cell of columns 4, 5 and 6, cell
\* of column 7, update_cell of columns 7 and 8. A run is told by the first of
\* them that fails, 0 when none does.
FailPoints ==
    CASE store = "up"    -> {0}
      [] store = "down"  -> {1}
      [] store = "flaky" -> {0, 1}
      [] OTHER           -> 0..8

\* students_sheet.find(student_id): the first row that holds the id, 0 for none.
FindRow(sheet, sid) ==
    IF \E i \in 1..Len(sheet) : sheet[i].student_id = sid
    THEN CHOOSE i \in 1..Len(sheet) :
             /\ sheet[i].student_id = sid
             /\ \A j \in 1..(i - 1) : sheet[j].student_id # sid
    ELSE 0

\* Lines 436-454: the row is found, columns 4 to 6 are written and the time
\* cell is read. next tells how the function goes on: "write" with the cell
\* read, "append" in the except branch of line 459 (no row holds the id, a
\* call of the try failed, or session_start is None), "done" when the outer
\* except swallowed the failure. The worksheet is kept by the columns the time
\* cell depends on: columns 3 to 6 and 8 are written and never read.
SummaryRead(sheet, sid, start, fail) ==
    LET r == FindRow(sheet, sid)
    IN  IF fail = 1 THEN [next |-> "done", row |-> r, current_time |-> 0]
        ELSE IF fail \in 2..6 \/ r = 0 \/ start = <<>>
        THEN [next |-> "append", row |-> r, current_time |-> 0]
        ELSE [next |-> "write", row |-> r, current_time |-> sheet[r].time_minutes]

\* Line 455 adding to the cell as it stands at the write.
SummaryWriteFresh(sheet, r, current_time, minutes, fail) ==
    IF fail = 7 THEN [next |-> "append", sheet |-> sheet]
    ELSE LET s7 == [sheet EXCEPT ![r].time_minutes = @ + minutes]
         IN  [next |-> IF fail = 8 THEN "append" ELSE "done", sheet |-> s7]

\* Lines 455-458: the time cell is written with the value read at line 454
\* plus the minutes of the session, then column 8.
SummaryWrite(sheet, r, current_time, minutes, fail) ==
    IF fail = 7 THEN [next |-> "append", sheet |-> sheet]
    ELSE LET s7 == [sheet EXCEPT ![r].time_minutes = current_time + minutes]
         IN  [next |-> IF fail = 8 THEN "append" ELSE "done", sheet |-> s7]

\* The row the except branch appends, lines 460-475.
SummaryRow(sid, name, start) ==
    [ student_id   |-> sid,
      student_name |-> name,
      time_minutes |-> IF start = <<>> THEN 0 ELSE time_minutes(start) ]

\* students_sheet.append_row(row); a failure goes to the outer except.
SummaryAppend(sheet, row, appendOk) ==
    IF appendOk /\ Len(sheet) < MaxRows THEN Append(sheet, row) ELSE sheet

\* Lines 455-477 from the write on: the Students worksheet afterwards.
SummaryFinished(sheet, r, current_time, minutes, row, fail, appendOk) ==
    LET wr == SummaryWrite(sheet, r, current_time, minutes, fail)
    IN  IF wr.next = "done" THEN wr.sheet
        ELSE SummaryAppend(wr.sheet, row, appendOk)

\* update_student_summary after the flush, lines 435-477, run without a break:
\* the Students worksheet afterwards.
Summarised(sheet, sid, name, start, fail, appendOk) ==
    LET rd == SummaryRead(sheet, sid, start, fail)
        row == SummaryRow(sid, name, start)
    IN  CASE rd.next = "done"   -> sheet
          [] rd.next = "append" -> SummaryAppend(sheet, row, appendOk)
          [] OTHER -> SummaryFinished(sheet, rd.row, rd.current_time,
                                      time_minutes(start), row, fail, appendOk)

\* No time cell of the worksheet is beyond the minutes it takes.
TimeWithin(sheet) ==
    \A i \in 1..Len(sheet) :
        sheet[i].time_minutes * 60 <= MaxSummed * SecondsPerTick

-----------------------------------------------------------------------------
(* Session state *)

\* The st.session_state.setdefault calls at the top of the script, on a session
\* with no keys.
FreshSession ==
    /\ screen' = "dashboard"
    /\ student_name' = None
    /\ student_id' = None
    /\ first_name' = None
    /\ current_topic' = None
    /\ questions_answered' = 0
    /\ correct_answers' = 0
    /\ session_start' = <<>>
    /\ conversation_history' = <<>>
    /\ daily_usage' = [date |-> Today, count |-> 0]
    /\ pending_logs' = <<>>
    /\ question_start_time' = <<>>
    /\ question_issued' = <<>>
    /\ summed' = 0
    /\ current_streak' = 0
    /\ best_streak' = 0

Init ==
    /\ screen = "dashboard"
    /\ student_name = None
    /\ student_id = None
    /\ first_name = None
    /\ current_topic = None
    /\ questions_answered = 0
    /\ correct_answers = 0
    /\ session_start = <<>>
    /\ conversation_history = <<>>
    /\ daily_usage = [date |-> 0, count |-> 0]
    /\ pending_logs = <<>>
    /\ question_start_time = <<>>
    /\ question_issued = <<>>
    /\ summed = 0
    /\ current_streak = 0
    /\ best_streak = 0
    /\ events = {}
    /\ activity_log = <<>>
    /\ now = DayLen - 1
    /\ view = "login"
    /\ pc = "idle"
    /\ response = 0
    /\ outcome = "none"
    /\ budget = MaxTurns
    /\ held = <<>>
    /\ students = <<>>
    /\ store \in StoreModes
    /\ peer = None
    /\ me = 1

-----------------------------------------------------------------------------
(* Reruns *)

\* A limit wall that takes the session's score with it.
StoppedResetsScore(readOk, what) ==
    /\ view' = Landing(activity_log, daily_usage, readOk, view)
    /\ daily_usage' =
           IF GlobalBlocked(activity_log, readOk) THEN daily_usage
           ELSE UsageChecked(daily_usage)
    /\ outcome' = what
    /\ response' = 0
    /\ events' = {}
    /\ questions_answered' = 0
    /\ correct_answers' = 0
    /\ UNCHANGED << screen, student_name, student_id, first_name, current_topic,
                    session_start, conversation_history, pending_logs,
                    question_start_time, current_streak, best_streak,
                    activity_log, now, pc, budget,
                    students, held, store, peer, me, question_issued,
                    summed >>

\* A rerun that st.stop ends at a limit wall: check_global_limit changes
\* nothing, check_daily_limit has reset a stale usage before it stops. The
\* outcome tells a stopped prompt from a stopped button.
Stopped(readOk, what) ==
    /\ view' = Landing(activity_log, daily_usage, readOk, view)
    /\ daily_usage' =
           IF GlobalBlocked(activity_log, readOk) THEN daily_usage
           ELSE UsageChecked(daily_usage)
    /\ outcome' = what
    /\ response' = 0
    /\ events' = {}
    /\ UNCHANGED << screen, student_name, student_id, first_name, current_topic,
                    questions_answered, correct_answers, session_start,
                    conversation_history, pending_logs, question_start_time,
                    current_streak, best_streak, activity_log, now, pc, budget,
                    students, held, store, peer, me, question_issued,
                    summed >>

\* The limit checks at the top of a logged-in screen let the rerun through.
Passes(readOk) == Landing(activity_log, daily_usage, readOk, "pass") = "pass"

\* show_dashboard, the Enter button of the login section.
Enter(first, last, class_code) ==
    /\ view = "login"
    /\ pc = "idle"
    /\ IF first # "" /\ last # "" /\ class_code # "" /\ ValidCode(class_code)
       THEN /\ student_name' = FullName(first, last)
            /\ first_name' = first
            /\ student_id' = StudentIdOf(FullName(first, last))
            /\ session_start' = <<now>>
            \* st.rerun(): the dashboard of a logged-in student, behind the checks
            /\ \E readOk \in StoreAnswers :
                  /\ view' = Landing(activity_log, daily_usage, readOk, "dashboard")
                  /\ daily_usage' =
                         IF GlobalBlocked(activity_log, readOk) THEN daily_usage
                         ELSE UsageChecked(daily_usage)
       ELSE UNCHANGED << student_name, first_name, student_id, session_start,
                         view, daily_usage >>
    /\ outcome' = "none"
    /\ response' = 0
    /\ events' = {}
    /\ UNCHANGED << screen, current_topic, questions_answered, correct_answers,
                    conversation_history, pending_logs, question_start_time,
                    current_streak, best_streak, activity_log, now, pc, budget,
                    students, held, store, peer, me, question_issued,
                    summed >>

\* show_dashboard, the View Progress button: show_progress_modal reads only.
ViewProgress ==
    /\ view = "dashboard"
    /\ pc = "idle"
    /\ \E readOk \in StoreAnswers :
          IF ~Passes(readOk) THEN Stopped(readOk, "none")
          ELSE /\ daily_usage' = UsageChecked(daily_usage)
               /\ outcome' = "none"
               /\ response' = 0
               /\ events' = {}
               /\ UNCHANGED << screen, student_name, student_id, first_name,
                               current_topic, questions_answered, correct_answers,
                               session_start, conversation_history, pending_logs,
                               question_start_time, current_streak, best_streak,
                               activity_log, now, view, pc, budget,
                    students, held, store, peer, me, question_issued,
                    summed >>

\* start_practice with the score of the session started anew with the topic.
start_practice_ResetsScore(topic) ==
    /\ view = "dashboard"
    /\ pc = "idle"
    /\ \E readOk, readOk2 \in StoreAnswers :
          IF ~Passes(readOk) THEN Stopped(readOk, "none")
          ELSE /\ current_topic' = topic
               /\ screen' = "practice"
               /\ conversation_history' = <<>>
               /\ question_start_time' = <<now>>
               /\ question_issued' = <<>>
               /\ questions_answered' = 0
               /\ correct_answers' = 0
               /\ daily_usage' = UsageChecked(daily_usage)
               /\ view' = Landing(activity_log, daily_usage, readOk2, "practice")
               /\ outcome' = "none"
               /\ response' = 0
               /\ events' = {}
               /\ UNCHANGED << student_name, student_id, first_name,
                               session_start, pending_logs, current_streak,
                               best_streak, activity_log, now, pc, budget,
                               students, held, store, peer, me, summed >>

\* show_dashboard, a topic button: start_practice(topic), then st.rerun() into
\* show_practice_screen and its checks.
start_practice(topic) ==
    /\ view = "dashboard"
    /\ pc = "idle"
    /\ \E readOk, readOk2 \in StoreAnswers :
          IF ~Passes(readOk) THEN Stopped(readOk, "none")
          ELSE /\ current_topic' = topic
               /\ screen' = "practice"
               /\ conversation_history' = <<>>
               /\ question_start_time' = <<now>>
               /\ question_issued' = <<>>
               /\ daily_usage' = UsageChecked(daily_usage)
               /\ view' = Landing(activity_log, daily_usage, readOk2, "practice")
               /\ outcome' = "none"
               /\ response' = 0
               /\ events' = {}
               /\ UNCHANGED << student_name, student_id, first_name,
                               questions_answered, correct_answers, session_start,
                               pending_logs, current_streak, best_streak,
                               activity_log, now, pc, budget,
                    students, held, store, peer, me, summed >>

\* The minutes the worksheet holds for the student id, over its rows.
RECURSIVE MinutesOf(_, _)
MinutesOf(sheet, sid) ==
    IF sheet = <<>> THEN 0
    ELSE (IF Head(sheet).student_id = sid THEN Head(sheet).time_minutes ELSE 0)
         + MinutesOf(Tail(sheet), sid)

\* The Students worksheet after update_student_summary of this session.
SummaryOf(fail, appendOk) ==
    Summarised(students, student_id, student_name, session_start, fail, appendOk)

\* update_student_summary: the queue is flushed first (line 434), then the
\* student's row of the Students worksheet is brought up to date.
update_student_summary(storeOk, fail, appendOk) ==
    /\ pending_logs' = Flushed(pending_logs, activity_log, storeOk)[1]
    /\ activity_log' = Flushed(pending_logs, activity_log, storeOk)[2]
    /\ students' = SummaryOf(fail, appendOk)
    /\ TimeWithin(students')
    /\ summed' = summed + MinutesOf(students', student_id) - MinutesOf(students, student_id)

\* Every key of st.session_state but screen is deleted.
ClearSessionKeepsScreen(what) ==
    /\ screen' = screen
    /\ student_name' = None
    /\ student_id' = None
    /\ first_name' = None
    /\ current_topic' = None
    /\ questions_answered' = 0
    /\ correct_answers' = 0
    /\ session_start' = <<>>
    /\ conversation_history' = <<>>
    /\ daily_usage' = [date |-> Today, count |-> 0]
    /\ pending_logs' = <<>>
    /\ question_start_time' = <<>>
    /\ question_issued' = <<>>
    /\ summed' = 0
    /\ current_streak' = 0
    /\ best_streak' = 0
    /\ view' = "login"
    /\ outcome' = what
    /\ response' = 0
    /\ events' = {}

\* Every key of st.session_state is deleted and the rerun creates them anew.
\* The outcome tells an exit button from a reload of the page.
ClearSession(what) ==
    /\ FreshSession
    /\ view' = "login"
    /\ outcome' = what
    /\ response' = 0
    /\ events' = {}

\* show_dashboard, the Exit button.
ExitDashboard ==
    /\ view = "dashboard"
    /\ pc = "idle"
    /\ \E readOk, storeOk, appendOk \in StoreAnswers, fail \in FailPoints :
          IF ~Passes(readOk) THEN Stopped(readOk, "none")
          ELSE /\ IF questions_answered > 0
                  THEN /\ activity_log' = Flushed(pending_logs, activity_log, storeOk)[2]
                       /\ students' = SummaryOf(fail, appendOk)
                       /\ TimeWithin(students')
                  ELSE UNCHANGED << activity_log, students >>
               /\ ClearSession("exited")
               /\ UNCHANGED << now, pc, budget, held, store, peer, me >>

\* show_practice_screen, the Exit button: back to the dashboard, then
\* st.rerun() into show_dashboard and its checks.
ExitPractice ==
    /\ view = "practice"
    /\ pc = "idle"
    /\ \E readOk, readOk2, storeOk, appendOk \in StoreAnswers, fail \in FailPoints :
          IF ~Passes(readOk) THEN Stopped(readOk, "none")
          ELSE /\ update_student_summary(storeOk, fail, appendOk)
               /\ screen' = "dashboard"
               /\ current_topic' = None
               /\ daily_usage' = UsageChecked(daily_usage)
               /\ view' = Landing(activity_log', daily_usage, readOk2, "dashboard")
               /\ outcome' = "exited"
               /\ response' = 0
               /\ events' = {}
               /\ UNCHANGED << student_name, student_id, first_name,
                               questions_answered, correct_answers, session_start,
                               conversation_history, question_start_time,
                               current_streak, best_streak, now, pc, budget,
                               held, store, peer, me, question_issued >>

\* The practice Exit up to the read of the time cell at line 454. Another
\* session may come to the store before line 455 runs; a run that does not get
\* as far as the cell is ExitPractice.
ExitPracticeBegin ==
    /\ view = "practice"
    /\ pc = "idle"
    /\ \E readOk, storeOk \in StoreAnswers, fail \in FailPoints :
          LET rd == SummaryRead(students, student_id, session_start, fail)
          IN  /\ Passes(readOk)
              /\ rd.next = "write"
              /\ pending_logs' = Flushed(pending_logs, activity_log, storeOk)[1]
              /\ activity_log' = Flushed(pending_logs, activity_log, storeOk)[2]
              /\ held' = [ row          |-> rd.row,
                           current_time |-> rd.current_time,
                           time_minutes |-> time_minutes(session_start) ]
    /\ pc' = "updating"
    /\ daily_usage' = UsageChecked(daily_usage)
    /\ outcome' = "none"
    /\ response' = 0
    /\ events' = {}
    /\ UNCHANGED << screen, student_name, student_id, first_name, current_topic,
                    questions_answered, correct_answers, session_start,
                    conversation_history, question_start_time, current_streak,
                    best_streak, now, view, students, budget, store, peer, me, question_issued,
                    summed >>

\* The practice Exit from line 455 on: the time cell is written with the value
\* held since line 454, and the session goes back to the dashboard.
ExitPracticeEnd ==
    /\ pc = "updating"
    /\ \E readOk2, appendOk \in StoreAnswers, fail \in FailPoints \cap {0, 7, 8} :
          /\ students' = SummaryFinished(students, held.row, held.current_time,
                                         held.time_minutes,
                                         SummaryRow(student_id, student_name,
                                                    session_start),
                                         fail, appendOk)
          /\ view' = Landing(activity_log, daily_usage, readOk2, "dashboard")
    /\ TimeWithin(students')
    /\ summed' = summed + (IF students' # students THEN held.time_minutes ELSE 0)
    /\ pc' = "idle"
    /\ held' = <<>>
    /\ screen' = "dashboard"
    /\ current_topic' = None
    /\ outcome' = "exited"
    /\ response' = 0
    /\ events' = {}
    /\ UNCHANGED << student_name, student_id, first_name, questions_answered,
                    correct_answers, session_start, conversation_history,
                    daily_usage, pending_logs, question_start_time,
                    current_streak, best_streak, activity_log, now, budget,
                    store, peer, me, question_issued >>

\* Exit for Today without line 531: the session goes with its queue.
ExitForTodayNoFlush ==
    /\ view = "daily_wall"
    /\ pc = "idle"
    /\ \E readOk \in StoreAnswers :
          IF GlobalBlocked(activity_log, readOk) THEN Stopped(readOk, "none")
          ELSE IF DailyBlocked(UsageChecked(daily_usage))
          THEN /\ UNCHANGED << activity_log, students >>
               /\ ClearSession("exited")
               /\ UNCHANGED << now, pc, budget, held, store, peer, me >>
          ELSE /\ daily_usage' = UsageChecked(daily_usage)
               /\ view' = screen
               /\ outcome' = "none"
               /\ response' = 0
               /\ events' = {}
               /\ UNCHANGED << screen, student_name, student_id, first_name,
                               current_topic, questions_answered, correct_answers,
                               session_start, conversation_history, pending_logs,
                               question_start_time, current_streak, best_streak,
                               activity_log, now, pc, budget,
                               students, held, store, peer, me, question_issued,
                               summed >>

\* check_daily_limit, the Exit for Today button of the daily wall. The button is
\* drawn, and so pressed, only in a rerun that is still at the limit.
ExitForToday ==
    /\ view = "daily_wall"
    /\ pc = "idle"
    /\ \E readOk, storeOk, appendOk \in StoreAnswers, fail \in FailPoints :
          IF GlobalBlocked(activity_log, readOk) THEN Stopped(readOk, "none")
          ELSE IF DailyBlocked(UsageChecked(daily_usage))
          THEN /\ activity_log' = Flushed(pending_logs, activity_log, storeOk)[2]
               /\ students' = SummaryOf(fail, appendOk)
               /\ TimeWithin(students')
               /\ ClearSession("exited")
               /\ UNCHANGED << now, pc, budget, held, store, peer, me >>
          ELSE /\ daily_usage' = UsageChecked(daily_usage)
               /\ view' = screen
               /\ outcome' = "none"
               /\ response' = 0
               /\ events' = {}
               /\ UNCHANGED << screen, student_name, student_id, first_name,
                               current_topic, questions_answered, correct_answers,
                               session_start, conversation_history, pending_logs,
                               question_start_time, current_streak, best_streak,
                               activity_log, now, pc, budget,
                               students, held, store, peer, me, question_issued,
                               summed >>

\* The browser reloads the page at a limit wall: a new session.
Reload ==
    /\ view \in {"global_wall", "daily_wall"}
    /\ pc = "idle"
    /\ ClearSession("reloaded")
    /\ UNCHANGED << activity_log, now, pc, budget,
                    students, held, store, peer, me >>

\* show_practice_screen, st.chat_input: the prompt joins the history and goes
\* to the reply generator, unless a limit check stops the rerun first.
SubmitPrompt ==
    /\ view = "practice"
    /\ pc = "idle"
    /\ budget > 0
    /\ \E readOk \in StoreAnswers :
          IF ~Passes(readOk) THEN Stopped(readOk, "blocked")
          ELSE /\ daily_usage' = UsageChecked(daily_usage)
               /\ conversation_history' = Append(conversation_history, "user")
               /\ pc' = "thinking"
               /\ budget' = budget - 1
               /\ outcome' = "none"
               /\ response' = 0
               /\ events' = {}
               /\ UNCHANGED << screen, student_name, student_id, first_name,
                               current_topic, questions_answered, correct_answers,
                               session_start, pending_logs, question_start_time,
                               current_streak, best_streak, activity_log, now,
                               view,
                    students, held, store, peer, me, question_issued,
                    summed >>

\* chat.send_message raises and the apology is kept as the assistant's message.
ReplyFailsKeepsApology ==
    /\ pc = "thinking"
    /\ pc' = "idle"
    /\ outcome' = "failed"
    /\ response' = 0
    /\ events' = {}
    /\ conversation_history' = Append(conversation_history, "assistant")
    /\ UNCHANGED << screen, student_name, student_id, first_name, current_topic,
                    questions_answered, correct_answers, session_start,
                    daily_usage, pending_logs,
                    question_start_time, current_streak, best_streak,
                    activity_log, now, view, budget,
                    students, held, store, peer, me, question_issued,
                    summed >>

\* chat.send_message raises: st.error and return.
ReplyFails ==
    /\ pc = "thinking"
    /\ pc' = "idle"
    /\ outcome' = "failed"
    /\ response' = 0
    /\ events' = {}
    /\ UNCHANGED << screen, student_name, student_id, first_name, current_topic,
                    questions_answered, correct_answers, session_start,
                    conversation_history, daily_usage, pending_logs,
                    question_start_time, current_streak, best_streak,
                    activity_log, now, view, budget,
                    students, held, store, peer, me, question_issued,
                    summed >>

\* time_seconds: the seconds since question_start_time, or since now when the
\* key is absent.
ElapsedSeconds ==
    IF question_start_time = <<>> THEN 0 ELSE now - question_start_time[1]

\* Lines 814-817 with the increment of questions_answered under the else of
\* "if is_correct".
CountedWrongOnly(answered, correct_count, correct) ==
    << IF correct THEN answered ELSE answered + 1,
       IF correct THEN correct_count + 1 ELSE correct_count >>

\* Lines 814-817: <<questions_answered, correct_answers>> after a feedback turn.
Counted(answered, correct_count, correct) ==
    << answered + 1, IF correct THEN correct_count + 1 ELSE correct_count >>

\* Line 426 behind the store: the turn counts against the daily limit only
\* when the store has answered.
FeedbackCountsWhenStored(correct, storeOk) ==
    LET row == Row(student_id, student_name, current_topic, correct, ElapsedSeconds)
        after == Logged(pending_logs, activity_log, row, storeOk)
        counted == Counted(questions_answered, correct_answers, correct)
    IN  /\ questions_answered' = counted[1]
        /\ correct_answers' = counted[2]
        /\ pending_logs' = after[1]
        /\ activity_log' = after[2]
        /\ daily_usage' = IF storeOk THEN [daily_usage EXCEPT !.count = @ + 1]
                          ELSE daily_usage
        /\ question_start_time' = <<now>>
        /\ question_issued' = <<>>
        /\ current_streak' = StreakAfter(current_streak, correct)
        /\ best_streak' = BestAfter(best_streak, current_streak, correct)
        /\ events' = EventsOf(current_streak, best_streak, correct, student_name)
        /\ outcome' = IF correct THEN "correct" ELSE "incorrect"

\* The feedback branch of show_practice_screen, lines 813-831, with the
\* progress tracker's streak transition.
Feedback(correct, storeOk) ==
    LET row == Row(student_id, student_name, current_topic, correct, ElapsedSeconds)
        after == Logged(pending_logs, activity_log, row, storeOk)
        counted == Counted(questions_answered, correct_answers, correct)
    IN  /\ questions_answered' = counted[1]
        /\ correct_answers' = counted[2]
        /\ pending_logs' = after[1]
        /\ activity_log' = after[2]
        /\ daily_usage' = [daily_usage EXCEPT !.count = @ + 1]
        /\ question_start_time' = <<now>>
        /\ question_issued' = <<>>
        /\ current_streak' = StreakAfter(current_streak, correct)
        /\ best_streak' = BestAfter(best_streak, current_streak, correct)
        /\ events' = EventsOf(current_streak, best_streak, correct, student_name)
        /\ outcome' = IF correct THEN "correct" ELSE "incorrect"

\* chat.send_message returns Replies[r]: the reply joins the history and is
\* classified.
ReplyArrives(r) ==
    /\ pc = "thinking"
    /\ pc' = "idle"
    /\ response' = r
    /\ conversation_history' = Append(conversation_history, "assistant")
    /\ IF Classified[r] = "raised"
       THEN /\ outcome' = "raised"
            /\ events' = {}
            /\ UNCHANGED << questions_answered, correct_answers, pending_logs,
                            activity_log, daily_usage, question_start_time,
                            question_issued, current_streak, best_streak >>
       ELSE IF Classified[r] \in {"correct", "incorrect"}
       THEN \E storeOk \in StoreAnswers : Feedback(Classified[r] = "correct", storeOk)
       ELSE /\ outcome' = "question"
            /\ events' = {}
            /\ question_issued' = <<now>>
            /\ UNCHANGED << questions_answered, correct_answers, pending_logs,
                            activity_log, daily_usage, question_start_time,
                            current_streak, best_streak >>
    /\ UNCHANGED << screen, student_name, student_id, first_name, current_topic,
                    session_start, now, view, budget,
                    students, held, store, peer, me, summed >>

\* The clock advances.
Tick ==
    /\ now < MaxNow
    /\ now' = now + 1
    /\ UNCHANGED << screen, student_name, student_id, first_name, current_topic,
                    questions_answered, correct_answers, session_start,
                    conversation_history, daily_usage, pending_logs,
                    question_start_time, current_streak, best_streak, events,
                    activity_log, view, pc, response, outcome, budget,
                    students, held, store, peer, me, question_issued,
                    summed >>

Next ==
    \/ \E first \in FirstNames, last \in LastNames, class_code \in ClassCodes :
          Enter(first, last, class_code)
    \/ ViewProgress
    \/ \E topic \in Topics : start_practice(topic)
    \/ ExitDashboard
    \/ ExitPractice
    \/ ExitForToday
    \/ Reload
    \/ SubmitPrompt
    \/ ReplyFails
    \/ \E r \in 1..Len(Replies) : ReplyArrives(r)
    \/ Tick

Spec == Init /\ [][Next]_vars

-----------------------------------------------------------------------------
(* Practice from the middle of a session *)

\* A session on the practice screen that has answered n questions at clock 0:
\* best correct answers in a row and, when the streak has been broken since, a
\* wrong one and streak correct ones. The store has taken every batch of
\* FLUSH_AT rows, or none at all when it is down. The tutor has just posed the
\* next question.
AnsweredCorrectly(i, streak, best) == streak = best \/ i # best + 1

InitPractice ==
    \E streak \in 0..MaxBest, topic \in Topics :
    \E best \in {streak, MaxBest} :
        LET n == IF streak = best THEN best ELSE best + 1 + streak
            queued == IF store = "down" THEN n ELSE n % FLUSH_AT
        IN  /\ store \in StoreModes
            /\ now = 0
            /\ screen = "practice"
            /\ student_name = FullName("Ana", "Lee")
            /\ student_id = StudentIdOf(student_name)
            /\ first_name = "Ana"
            /\ current_topic = topic
            /\ questions_answered = n
            /\ correct_answers = IF streak = best THEN n ELSE n - 1
            /\ session_start = <<now>>
            /\ conversation_history =
                   [i \in 1..(2 * n + 2) |-> IF i % 2 = 1 THEN "user" ELSE "assistant"]
            /\ \E count \in 0..DAILY_LIMIT :
                  /\ count <= n
                  /\ daily_usage = [date |-> Today, count |-> count]
            /\ LET rows == [i \in 1..n |->
                               Row(student_id, student_name, topic,
                                   AnsweredCorrectly(i, streak, best), 0)]
               IN  /\ activity_log = SubSeq(rows, 1, n - queued)
                   /\ pending_logs = SubSeq(rows, n - queued + 1, n)
            /\ question_start_time = <<now>>
            /\ question_issued = <<now>>
            /\ summed = 0
            /\ current_streak = streak
            /\ best_streak = best
            /\ events = {}
            /\ view = "practice"
            /\ pc = "idle"
            /\ response = 3
            /\ outcome = "question"
            /\ budget = PracticeTurns
            /\ held = <<>>
            /\ students = <<>>
            /\ peer = None
            /\ me = 1

NextPractice ==
    \/ SubmitPrompt
    \/ ReplyFails
    \/ \E r \in 1..Len(Replies) : ReplyArrives(r)
    \/ Tick

SpecPractice == InitPractice /\ [][NextPractice]_vars

-----------------------------------------------------------------------------
(* Two browser sessions of one student *)

\* st.session_state of the session in front: Streamlit keeps one per browser
\* session.
SessionState ==
    [ screen               |-> screen,
      student_name         |-> student_name,
      student_id           |-> student_id,
      first_name           |-> first_name,
      current_topic        |-> current_topic,
      questions_answered   |-> questions_answered,
      correct_answers      |-> correct_answers,
      session_start        |-> session_start,
      conversation_history |-> conversation_history,
      daily_usage          |-> daily_usage,
      pending_logs         |-> pending_logs,
      question_start_time  |-> question_start_time,
      question_issued      |-> question_issued,
      summed               |-> summed,
      current_streak       |-> current_streak,
      best_streak          |-> best_streak,
      events               |-> events,
      view                 |-> view,
      pc                   |-> pc,
      response             |-> response,
      outcome              |-> outcome,
      held                 |-> held ]

\* The session in front takes its st.session_state from the record.
Resume(session) ==
    /\ screen' = session.screen
    /\ student_name' = session.student_name
    /\ student_id' = session.student_id
    /\ first_name' = session.first_name
    /\ current_topic' = session.current_topic
    /\ questions_answered' = session.questions_answered
    /\ correct_answers' = session.correct_answers
    /\ session_start' = session.session_start
    /\ conversation_history' = session.conversation_history
    /\ daily_usage' = session.daily_usage
    /\ pending_logs' = session.pending_logs
    /\ question_start_time' = session.question_start_time
    /\ question_issued' = session.question_issued
    /\ summed' = session.summed
    /\ current_streak' = session.current_streak
    /\ best_streak' = session.best_streak
    /\ events' = session.events
    /\ view' = session.view
    /\ pc' = session.pc
    /\ response' = session.response
    /\ outcome' = session.outcome
    /\ held' = session.held

\* One daily_usage for every session, as a module-level variable would be: the
\* session in front goes on with the count the other session left.
SwitchSharedUsage ==
    /\ Resume([peer EXCEPT !.daily_usage = daily_usage])
    /\ peer' = SessionState
    /\ me' = 3 - me
    /\ UNCHANGED << activity_log, students, now, budget, store >>

\* The server turns to the other browser session: the next script run, or the
\* next answer from the reply generator or the store, is that session's. The
\* store and the clock are the same for both.
Switch ==
    /\ Resume(peer)
    /\ peer' = SessionState
    /\ me' = 3 - me
    /\ UNCHANGED << activity_log, students, now, budget, store >>

\* One student logged in from two browsers at clock 0, each session on the
\* practice screen of its topic; the clock has come to the last tick of the
\* day. The Students worksheet holds the student's row from an earlier day, or
\* no row.
InitTwo ==
    /\ now = DayLen - 1
    /\ screen = "practice"
    /\ student_name = FullName("Ana", "Lee")
    /\ student_id = StudentIdOf(student_name)
    /\ first_name = "Ana"
    /\ current_topic = "Number"
    /\ questions_answered = 0
    /\ correct_answers = 0
    /\ session_start = <<0>>
    /\ conversation_history = <<>>
    /\ daily_usage = [date |-> Today, count |-> 0]
    /\ pending_logs = <<>>
    /\ question_start_time = <<0>>
    /\ question_issued = <<>>
    /\ summed = 0
    /\ current_streak = 0
    /\ best_streak = 0
    /\ events = {}
    /\ activity_log = <<>>
    /\ view = "practice"
    /\ pc = "idle"
    /\ response = 0
    /\ outcome = "none"
    /\ held = <<>>
    /\ students \in { <<>>,
                      << [ student_id   |-> student_id,
                           student_name |-> student_name,
                           time_minutes |-> 0 ] >> }
    /\ budget = PracticeTurns
    /\ store \in {"up", "patchy"}
    /\ peer = [SessionState EXCEPT !.current_topic = "Mixed"]
    /\ me = 1

NextTwo ==
    \/ Switch
    \/ SubmitPrompt
    \/ ReplyFails
    \/ \E r \in 1..Len(Replies) : ReplyArrives(r)
    \/ ExitPractice
    \/ ExitPracticeBegin
    \/ ExitPracticeEnd
    \/ Tick

SpecTwo == InitTwo /\ [][NextTwo]_vars

-----------------------------------------------------------------------------
(* Properties *)

\* The step in which a reply comes back from the reply generator.
ReplyStep == me' = me /\ pc = "thinking" /\ pc' = "idle" /\ response' # 0

\* The step of a turn the classifier took for feedback.
FeedbackStep == ReplyStep /\ outcome' \in {"correct", "incorrect"}

\* The text of a reply up to its first line break.
TextToFirstBreak(text) ==
    LET brk == {i \in 1..Len(text) : text[i] \in LineBreaks}
    IN  IF brk = {} THEN text
        ELSE SubSeq(text, 1, (CHOOSE i \in brk : \A j \in brk : i <= j) - 1)

\* Some marker of the list occurs in the lower-cased text.
MarkerIn(text, markers) ==
    \E k \in 1..Len(markers) : Contains(Lower(text), markers[k])

\* For each reply of Replies, the markers its first line holds.
FirstLineMarkers ==
    [ r \in 1..Len(Replies) |->
        [ positive |-> MarkerIn(TextToFirstBreak(Replies[r]), correct_markers),
          negative |-> MarkerIn(TextToFirstBreak(Replies[r]), incorrect_markers),
          later    |-> /\ MarkerIn(Replies[r], correct_markers \o incorrect_markers)
                       /\ ~MarkerIn(TextToFirstBreak(Replies[r]),
                                    correct_markers \o incorrect_markers) ] ]

\* The step leaves the counters, the daily count and the queue as they were.
TrackerUnchanged ==
    /\ questions_answered' = questions_answered
    /\ correct_answers' = correct_answers
    /\ daily_usage'.count = daily_usage.count
    /\ pending_logs' = pending_logs

\* C1: correct_answers never exceeds questions_answered, whatever turns,
\* topic selections and exits the session has been through.
C1_CorrectAtMostAnswered == correct_answers <= questions_answered

\* C1 witness: one right and one wrong answer, with a practice exit and a
\* topic selection between them.
C1_Witness ==
    /\ questions_answered = 2
    /\ correct_answers = 1
    /\ Len(conversation_history) = 2

\* C2: a reply whose first line holds a positive and a negative marker is not
\* feedback: the turn leaves the counters, the daily count and the queue alone.
C2_BothMarkersNotFeedback ==
    [][ ( /\ ReplyStep
          /\ FirstLineMarkers[response'].positive
          /\ FirstLineMarkers[response'].negative )
        => TrackerUnchanged ]_vars

\* C3: a reply whose first line holds no marker is a new question, whatever
\* its later lines hold: the turn leaves the counters, the daily count and the
\* queue alone.
C3_OnlyFirstLineClassified ==
    [][ ( /\ ReplyStep
          /\ ~FirstLineMarkers[response'].positive
          /\ ~FirstLineMarkers[response'].negative )
        => /\ TrackerUnchanged
           /\ Replies[response'] # <<>> => outcome' = "question" ]_vars

\* C3 witness: a reply with a marker on a later line only was taken for a
\* question.
C3_Witness ==
    /\ response # 0
    /\ outcome = "question"
    /\ FirstLineMarkers[response].later

\* C4: a feedback turn adds one to questions_answered (no step adds more),
\* one to correct_answers exactly if it was classified correct, one to the
\* daily count, and one row to the queue, with the classification as its flag
\* and the current topic as its strand; the row leaves the queue in the same
\* turn only with the whole queue, flushed at FLUSH_AT rows.
C4_FeedbackTurn ==
    [][ /\ questions_answered' <= questions_answered + 1
        /\ FeedbackStep =>
              LET before == activity_log \o pending_logs
                  after == activity_log' \o pending_logs'
                  row == after[Len(after)]
              IN  /\ questions_answered' = questions_answered + 1
                  /\ correct_answers' =
                         correct_answers + (IF outcome' = "correct" THEN 1 ELSE 0)
                  /\ daily_usage'.count = daily_usage.count + 1
                  /\ Len(after) = Len(before) + 1
                  /\ SubSeq(after, 1, Len(before)) = before
                  /\ row.correct = (IF outcome' = "correct" THEN "Yes" ELSE "No")
                  /\ row.strand = current_topic
                  /\ \/ pending_logs' = Append(pending_logs, row)
                     \/ /\ Len(pending_logs) + 1 >= FLUSH_AT
                        /\ pending_logs' = <<>> ]_vars

\* C4 witness: a feedback turn whose row filled the batch and went to the
\* Activity_Log with it.
C4_Witness ==
    /\ outcome \in {"correct", "incorrect"}
    /\ pending_logs = <<>>
    /\ Len(activity_log) >= FLUSH_AT
    /\ activity_log[Len(activity_log)].correct = (IF outcome = "correct" THEN "Yes" ELSE "No")

\* C5: a turn classified incorrect leaves current_streak at 0 and best_streak
\* as it was.
C5_IncorrectResetsStreak ==
    [][ (ReplyStep /\ outcome' = "incorrect")
        => (current_streak' = 0 /\ best_streak' = best_streak) ]_vars

\* C5 witness: a streak of MaxBest correct answers was reset by a wrong one.
C5_Witness ==
    /\ outcome = "incorrect"
    /\ current_streak = 0
    /\ best_streak = MaxBest
    /\ correct_answers = MaxBest

\* C6: a turn classified correct adds exactly one to current_streak, and no
\* other step raises it.
C6_CorrectExtendsStreak ==
    [][ /\ (ReplyStep /\ outcome' = "correct") => current_streak' = current_streak + 1
        /\ current_streak' > current_streak => (ReplyStep /\ outcome' = "correct") ]_vars

\* C6 witness: a correct answer took the streak to 7.
C6_Witness == outcome = "correct" /\ current_streak = 7

\* C7: current_streak never exceeds best_streak, and best_streak never falls.
C7_BestStreak ==
    /\ current_streak <= best_streak
    /\ [][current_streak' <= best_streak' /\ best_streak' >= best_streak]_vars

\* C7 witness: a correct answer restarted the streak below a standing best.
C7_Witness ==
    /\ outcome = "correct"
    /\ current_streak = 1
    /\ best_streak = MaxBest

\* C8: a badge event is out exactly after a correct turn that took the streak
\* to 5, 10, 15, 20 or 25, with the tier of that threshold, also when the
\* session has passed the threshold before.
C8_BadgeAtThresholds ==
    LET badges == {e \in events : e.type = "badge"}
        tier == CASE current_streak = 5  -> "Bronze"
                  [] current_streak = 10 -> "Silver"
                  [] current_streak = 15 -> "Gold"
                  [] current_streak = 20 -> "Platinum"
                  [] current_streak = 25 -> "Diamond"
                  [] OTHER -> "none"
    IN  IF outcome = "correct" /\ current_streak \in {5, 10, 15, 20, 25}
        THEN badges = {[type |-> "badge", tier |-> tier, student |-> student_name]}
        ELSE badges = {}

\* C8 witness: the streak reached 5 again under a higher best, and Bronze was
\* awarded again.
C8_Witness ==
    /\ outcome = "correct"
    /\ current_streak = 5
    /\ best_streak > 5
    /\ \E e \in events : e.type = "badge" /\ e.tier = "Bronze"

\* C9: a turn classified incorrect emits the streak-ended notice exactly if
\* the streak it resets stood at 5 or more; no other turn emits it.
C9_StreakEndedNotice ==
    [][ ReplyStep =>
          ( [type |-> "streak_ended"] \in events'
            <=> (outcome' = "incorrect" /\ current_streak >= 5) ) ]_vars

\* C9 witness: a streak-ended notice is out.
C9_Witness == [type |-> "streak_ended"] \in events

\* C10: the daily count never exceeds DAILY_LIMIT, and at the limit no prompt
\* reaches the reply generator or the classifier.
C10_DailyLimit ==
    /\ daily_usage.count <= DAILY_LIMIT
    /\ [][ /\ daily_usage'.count <= DAILY_LIMIT
           /\ (daily_usage.date = Today /\ daily_usage.count >= DAILY_LIMIT)
                 => /\ pc' # "thinking"
                    /\ questions_answered' <= questions_answered
                    /\ correct_answers' <= correct_answers ]_vars

\* C10 witness: a prompt on the practice screen was stopped at the daily wall.
C10_Witness ==
    /\ screen = "practice"
    /\ view = "daily_wall"
    /\ outcome = "blocked"
    /\ daily_usage.count = DAILY_LIMIT

\* check_daily_limit line 515 on today's date: the count that puts up the wall.
AtDailyLimit ==
    /\ daily_usage.date = Today
    /\ daily_usage.count >= DAILY_LIMIT

\* C11: once a student is at the daily limit the student stays there while the
\* calendar date stands, also across Exit for Today and a new login: no step
\* within the date takes the count that blocks the student below the limit.
C11_BlockedUntilNextDay ==
    [][ (AtDailyLimit /\ Today' = Today) => AtDailyLimit' ]_vars

\* A rerun of a logged-in screen that came as far as check_daily_limit: it ends
\* on the screen or on the daily wall.
DailyCheckStep ==
    /\ me' = me
    /\ pc = "idle"
    /\ now' = now
    /\ view' \in {"dashboard", "practice", "daily_wall"}

\* C12: the limit check replaces a daily_usage of another date by today's date
\* with count 0 and leaves one of today's date as it is, and the wall goes up
\* on the count the check leaves behind.
C12_StaleDateReset ==
    [][ DailyCheckStep =>
          /\ daily_usage' = IF daily_usage.date # Today
                            THEN [date |-> Today, count |-> 0]
                            ELSE daily_usage
          /\ (view' = "daily_wall") <=> (daily_usage'.count >= DAILY_LIMIT) ]_vars

\* C12 witness: a session that used up the turns of an earlier date is back on
\* the practice screen with today's count at 0.
C12_Witness ==
    /\ questions_answered = DAILY_LIMIT
    /\ daily_usage = [date |-> Today, count |-> 0]
    /\ Today > 0
    /\ view = "practice"

\* C13: a feedback turn that brings the queue to FLUSH_AT rows or more flushes
\* it in the same turn: the Activity_Log takes the whole queue in its order and
\* the queue is empty, unless the store fails, which leaves the row queued; a
\* turn that leaves the queue shorter does not touch the Activity_Log. With a
\* store that is up the queue never holds FLUSH_AT rows.
C13_FlushAtBatch ==
    /\ store = "up" => Len(pending_logs) < FLUSH_AT
    /\ [][ /\ store = "up" => Len(pending_logs') < FLUSH_AT
           /\ FeedbackStep =>
                 LET all == activity_log' \o pending_logs'
                     queued == Append(pending_logs, all[Len(all)])
                 IN  IF Len(queued) >= FLUSH_AT
                     THEN \/ /\ pending_logs' = <<>>
                             /\ activity_log' = activity_log \o queued
                          \/ /\ store # "up"
                             /\ pending_logs' = queued
                             /\ activity_log' = activity_log
                     ELSE /\ pending_logs' = queued
                          /\ activity_log' = activity_log ]_vars

\* C13 witness: with the store up, a feedback turn filled the second batch and
\* the Activity_Log took it.
C13_Witness ==
    /\ store = "up"
    /\ outcome \in {"correct", "incorrect"}
    /\ pending_logs = <<>>
    /\ Len(activity_log) = 2 * FLUSH_AT

\* A feedback turn moves the counters and the daily count by its
\* classification alone.
CountedByClassification ==
    /\ questions_answered' = questions_answered + 1
    /\ correct_answers' = correct_answers + (IF outcome' = "correct" THEN 1 ELSE 0)
    /\ daily_usage'.count = daily_usage.count + 1

\* The rows of the Activity_Log stamped with today's date.
TodayCount ==
    Cardinality({i \in 1..Len(activity_log) : DateOf(activity_log[i].timestamp) = Today})

\* C14 as stated: the counters come out the same with a store that answers
\* every call as with one that fails every call. With every call failing no
\* rerun ends at the global wall, so none may with the calls answered.
C14_SameWhateverTheStore ==
    [][ /\ FeedbackStep => CountedByClassification
        /\ view' # "global_wall" ]_vars

\* C14: no store failure interrupts the tutoring: whatever the store answers, a
\* feedback turn moves the counters by its classification alone; with the store
\* down no rerun is stopped at the global wall, which goes up only over a
\* store that holds GLOBAL_DAILY_LIMIT rows of today; and an uncaught error
\* comes only from the classifier.
C14_StoreFailureHarmless ==
    [][ /\ FeedbackStep => CountedByClassification
        /\ store = "down" => view' # "global_wall"
        /\ (view' = "global_wall" /\ now' = now) => TodayCount' >= GLOBAL_DAILY_LIMIT
        /\ outcome' = "raised" => Classified[response'] = "raised" ]_vars

\* C14 witness: with the store down, a session has counted its second feedback
\* turn, a failed flush at the practice Exit between the two, both rows queued.
C14_Witness ==
    /\ store = "down"
    /\ outcome \in {"correct", "incorrect"}
    /\ questions_answered = 2
    /\ Len(conversation_history) = 2
    /\ Len(pending_logs) = 2
    /\ activity_log = <<>>

\* The rerun of an exit button: Exit on the practice screen or the dashboard,
\* Exit for Today at the daily wall.
ExitStep == me' = me /\ pc = "idle" /\ outcome' = "exited"

\* C15: every exit button flushes a queue that holds rows before the session
\* state goes: the Activity_Log takes the whole queue in its order, unless the
\* store fails, and with the store up it always does. The practice Exit, which
\* keeps the session, keeps the rows a failed flush left. A queue with rows
\* means questions_answered > 0, the condition of the dashboard Exit.
C15_ExitFlushes ==
    /\ pending_logs # <<>> => questions_answered > 0
    /\ [][ /\ pending_logs' # <<>> => questions_answered' > 0
           /\ ExitStep =>
                 /\ \/ activity_log' = activity_log \o pending_logs
                    \/ store # "up" /\ activity_log' = activity_log
                 /\ student_name' # None =>
                       pending_logs' = IF activity_log' = activity_log
                                       THEN pending_logs ELSE <<>>
                 /\ student_name' = None => pending_logs' = <<>> ]_vars

\* C15 witness: with the store up, an exit button has ended a session and the
\* rows of both classified turns are in the Activity_Log.
C15_Witness ==
    /\ store = "up"
    /\ outcome = "exited"
    /\ view = "login"
    /\ Len(activity_log) = 2
    /\ activity_log[1].timestamp # activity_log[2].timestamp

\* C16: the classifier takes every reply the reply generator returns, an empty
\* one included, for feedback-correct, feedback-incorrect or not feedback, and
\* never raises.
C16_ClassifierNeverRaises ==
    [][ ReplyStep => outcome' \in {"correct", "incorrect", "question"} ]_vars

\* C17: from login to logout questions_answered and correct_answers never
\* fall, whatever the step: a topic chosen, the practice screen left, a limit
\* wall, a date change.
C17_CountersMonotone ==
    [][ student_name' # None =>
          /\ questions_answered' >= questions_answered
          /\ correct_answers' >= correct_answers ]_vars

\* C17 witness: a session that has answered a question correctly has left the
\* practice screen and started a topic again, its score standing.
C17_Witness ==
    /\ view = "practice"
    /\ conversation_history = <<>>
    /\ questions_answered = 1
    /\ correct_answers = 1

\* C18: questions_answered and correct_answers change only in the step that
\* classifies a feedback turn, or go with the session state at an exit or a
\* reload: login, topic selection, View Progress, the limit checks and the
\* practice Exit leave both as they are.
C18_OnlyClassifierCounts ==
    [][ (questions_answered' # questions_answered \/ correct_answers' # correct_answers)
        => \/ FeedbackStep
           \/ view' = "login" /\ outcome' \in {"exited", "reloaded"} ]_vars

\* C18 witness: a session with one wrong answer counted is back on the
\* dashboard after the practice Exit, past the limit checks.
C18_Witness ==
    /\ view = "dashboard"
    /\ outcome = "exited"
    /\ questions_answered = 1
    /\ correct_answers = 0

\* C19: two sessions share the store and nothing else: when the server turns
\* from one to the other each finds its own state as it left it, a step of one
\* leaves the state of the other as it is, and a session's counters, daily
\* count and queue move only in its own feedback turn, flush or date check.
C19_SessionsIsolated ==
    [][ /\ me' # me => (SessionState' = peer /\ peer' = SessionState)
        /\ me' = me =>
              /\ peer' = peer
              /\ FeedbackStep => CountedByClassification
              /\ ~FeedbackStep =>
                    /\ questions_answered' = questions_answered
                    /\ correct_answers' = correct_answers
                    /\ daily_usage' \in {daily_usage, [date |-> Today, count |-> 0]}
                    /\ pending_logs' \in {pending_logs, <<>>} ]_vars

\* C19 witness: both sessions have counted a turn of their own, one a correct
\* answer and one a wrong one, each with its row in its own queue.
C19_Witness ==
    /\ questions_answered = 1
    /\ correct_answers = 1
    /\ Len(pending_logs) = 1
    /\ pending_logs[1].strand = current_topic
    /\ peer.questions_answered = 1
    /\ peer.correct_answers = 0
    /\ Len(peer.pending_logs) = 1
    /\ peer.pending_logs[1].strand = peer.current_topic

\* C20: update_student_summary writes the time cell with the value it read
\* before plus the minutes of its session, whatever the cell holds at the
\* write: nothing locks the row between the read and the write, and the
\* addition another session made in between is lost.
C20_StaleTimeWrite ==
    [][ (me' = me /\ pc = "updating" /\ pc' = "idle") =>
          LET cell == students'[held.row].time_minutes
          IN  \/ cell = held.current_time + held.time_minutes
              \/ store # "up" /\ cell = students[held.row].time_minutes ]_vars

\* C20 witness: with the store up, both sessions have added the minutes of
\* their session to the student's time cell, and the cell holds the minutes of
\* one.
C20_Witness ==
    /\ store = "up"
    /\ now = DayLen - 1
    /\ outcome = "exited"
    /\ peer.outcome = "exited"
    /\ Len(students) = 1
    /\ students[1].time_minutes = time_minutes(session_start)
    /\ time_minutes(session_start) > 0

\* C21: the Students worksheet holds at most one row for a student id, whatever
\* calls of update_student_summary fail: a row is appended only when no row
\* holds the id.
C21_OneRowPerStudent ==
    \A i, j \in 1..Len(students) :
        students[i].student_id = students[j].student_id => i = j

\* A prompt can be sent: the practice screen is up, the session is below the
\* daily limit and the reply generator has turns left.
PromptReady ==
    /\ view = "practice"
    /\ pc = "idle"
    /\ budget > 0
    /\ ~DailyBlocked(UsageChecked(daily_usage))

\* The rerun of a prompt that passes the limit checks and goes to the reply
\* generator.
PromptAccepted == SubmitPrompt /\ pc' = "thinking"

\* C22: with the Activity_Log readable and holding GLOBAL_DAILY_LIMIT rows of
\* today or more, a prompt ends at the global wall and none is accepted; below
\* the ceiling, or when the read of the log can fail, the prompt is accepted.
C22_GlobalLimit ==
    PromptReady =>
        /\ (store = "up" /\ TodayCount >= GLOBAL_DAILY_LIMIT) =>
               /\ ~ENABLED PromptAccepted
               /\ ENABLED (SubmitPrompt /\ view' = "global_wall")
        /\ (store # "up" \/ TodayCount < GLOBAL_DAILY_LIMIT) =>
               ENABLED PromptAccepted

\* C22 witness: a prompt is at the reply generator over an Activity_Log that
\* holds the ceiling's rows of today: the read of the log failed.
C22_Witness ==
    /\ pc = "thinking"
    /\ store = "flaky"
    /\ TodayCount >= GLOBAL_DAILY_LIMIT

\* C23: the time a feedback turn records is the time from the reply that posed
\* the question being answered, the most recent new-question reply, to the
\* feedback turn.
C23_ElapsedFromQuestion ==
    [][ (FeedbackStep /\ question_issued # <<>>) =>
          LET after == activity_log' \o pending_logs'
              row == after[Len(after)]
          IN  row.time_seconds = now - question_issued[1] ]_vars

\* C24: while the session lives no row is lost and none is doubled: the
\* Activity_Log followed by the queue is the same sequence of rows after every
\* step, one row longer after a feedback turn; a step either leaves the
\* Activity_Log as it is, the queue keeping its rows, or moves the whole queue
\* to the end of the Activity_Log.
C24_NoRowLostOrDoubled ==
    [][ (me' = me /\ student_name # None /\ student_name' # None) =>
          LET before == activity_log \o pending_logs
              after == activity_log' \o pending_logs'
              kept == IF FeedbackStep THEN SubSeq(after, 1, Len(after) - 1) ELSE after
          IN  /\ Len(after) = Len(before) + (IF FeedbackStep THEN 1 ELSE 0)
              /\ kept = before
              /\ \/ activity_log' = activity_log
                 \/ activity_log' = after /\ pending_logs' = <<>> ]_vars

\* C24 witness: a flush failed at the fifth row of the queue, and the flush at
\* the sixth sent all six.
C24_Witness ==
    /\ store = "flaky"
    /\ pending_logs = <<>>
    /\ Len(activity_log) = FLUSH_AT + 1
    /\ questions_answered = FLUSH_AT + 1

\* C25: a turn whose reply generator fails leaves questions_answered,
\* correct_answers, the daily count, the queue and question_start_time as they
\* were; the prompt step has added the user's message to the history and the
\* failure adds none.
C25_FailedReplyLeavesState ==
    [][ /\ (me' = me /\ pc = "idle" /\ pc' = "thinking") =>
              /\ conversation_history' = Append(conversation_history, "user")
              /\ daily_usage'.count =
                     (IF daily_usage.date = Today THEN daily_usage.count ELSE 0)
              /\ UNCHANGED << questions_answered, correct_answers, pending_logs,
                              question_start_time, activity_log >>
        /\ (me' = me /\ pc = "thinking" /\ outcome' = "failed") =>
              /\ conversation_history[Len(conversation_history)] = "user"
              /\ UNCHANGED << questions_answered, correct_answers, daily_usage,
                              pending_logs, question_start_time,
                              conversation_history, activity_log >> ]_vars

\* C25 witness: the reply generator has failed on the prompt of a session with
\* answers counted and rows in its queue.
C25_Witness ==
    /\ outcome = "failed"
    /\ pc = "idle"
    /\ questions_answered > correct_answers
    /\ correct_answers > 0
    /\ pending_logs # <<>>
    /\ conversation_history[Len(conversation_history)] = "user"

\* The practice screen belongs to a logged-in student who has chosen a topic,
\* and a prompt is at the reply generator only from the practice screen.
PracticeLoggedIn ==
    /\ screen = "practice" =>
          /\ student_name # None
          /\ student_id # None
          /\ session_start # <<>>
          /\ current_topic \in AllTopics
    /\ pc = "thinking" => (screen = "practice" /\ view = "practice")

\* C26: screen = "practice" implies a student is logged in, with name, id and
\* session_start set, and current_topic one of the six topics; a reply reaches
\* the classifier only in such a state; and the step that clears the session
\* at an exit ends on the login section of the dashboard with every key at its
\* default.
C26_PracticeMeansLoggedIn ==
    /\ PracticeLoggedIn
    /\ [][ /\ PracticeLoggedIn'
           /\ (me' = me /\ student_name # None /\ student_name' = None) =>
                 /\ screen' = "dashboard"
                 /\ view' = "login"
                 /\ student_id' = None
                 /\ current_topic' = None
                 /\ session_start' = <<>>
                 /\ questions_answered' = 0
                 /\ correct_answers' = 0
                 /\ pending_logs' = <<>>
                 /\ conversation_history' = <<>> ]_vars

\* C26 witness: Exit for Today was pressed at the daily wall over the practice
\* screen, the session's row flushed, and the login section is up.
C26_Witness ==
    /\ outcome = "exited"
    /\ view = "login"
    /\ screen = "dashboard"
    /\ student_name = None
    /\ activity_log # <<>>

\* C27: the minutes the updates of one session have added to the student's
\* time cell come to the minutes of the session at its last update: after
\* every update that changes the worksheet, what the session has added so far
\* is the time from session_start to now, no interval counted twice.
C27_SessionTimeAddedOnce ==
    [][ (me' = me /\ students' # students) =>
          summed + MinutesOf(students', student_id) - MinutesOf(students, student_id)
              = time_minutes(session_start) ]_vars

====
